---- MODULE Spec2Model ----
(***************************************************************************)
(* A state-machine model of the Karius market-expansion RAG service:       *)
(*   - scripts/ingest.py          the WHO CSV ingestion run                *)
(*   - scripts/embed_and_store.py the embedding / indexing job             *)
(*   - app/main.py, app/rag_pipeline.py  the API handlers and the pipeline *)
(*                                                                         *)
(* The relational store is the committed content of the records table, a   *)
(* sequence of records in insertion order.  A SQLAlchemy session is its    *)
(* list of pending (added, not yet flushed) objects: commit() flushes and  *)
(* commits them, rollback() expunges all of them.                          *)
(***************************************************************************)
EXTENDS Integers, Sequences, FiniteSets, TLC

\* ------------------------------------------------------------------ bounds
MaxRows == 101          \* rows of the CSV file in the ingestion specification
SmallRows == 2          \* rows of a CSV file in the combined specification
MaxRuns == 1            \* runs of each tool in the combined specification
MaxBlankRows == 2       \* rows of one file that yield no content
MaxFailures == 2        \* exceptions raised during one ingestion run
MaxRecords == 2         \* records in the store of the embedding specification
MaxLimit == 1           \* largest --limit given to the embedding job
MaxBatch == 2           \* largest --batch-size given to the embedding job
MaxEmbedRuns == 2       \* runs of the embedding job
MaxRequests == 3        \* POST /query requests served

\* ------------------------------------------------------- program constants
CommitEvery == 100      \* ingest.py: if added_count % 100 == 0: db.commit()

VARIABLES
    store,          \* committed rows of the records table, in insertion order
    nextId,         \* next value of the records.id sequence
    ingPc,          \* ingestion run: "idle", "rows", "done"
    pending,        \* the ingestion session's pending (uncommitted) records
    rowsDone,       \* rows of the file the loop has processed
    added_count,    \* ingest_who_csv's added_count
    skipped_count,  \* ingest_who_csv's skipped_count
    fileError,      \* the run ended in one of the outer except clauses
    runs,           \* ingestion runs started
    columns,        \* the columns of the file being ingested
    hist,           \* history of the current run: what the file held, what was raised
    cli,            \* ingest.py's main: its arguments, its session, its exit status
    index,          \* the vector index: a set of entries (id, values, metadata)
    indexExists,    \* the configured index name is in pinecone.list_indexes()
    embPc,          \* embedding job: "idle", "batches", "done"
    embArgs,        \* its arguments: source, limit, batch_size
    offset,         \* get_records_to_embed's offset
    total_success,  \* main's total_success
    total_errors,   \* main's total_errors
    lastCall,       \* the last embed_and_store_records call: inputs and return value
    embHist,        \* history of the embedding job: runs, records yielded, last upserts
    statsPc,        \* GET /stats: "idle", "counted", "done"
    stats,          \* its total_records, by_source and response status
    filtersPc,      \* GET /filters: "idle", "done"
    filters,        \* its response
    pipes,          \* the RAGPipeline instances constructed so far
    rag_pipeline,   \* main._rag_pipeline: 0 for None, else a position in pipes
    req,            \* per worker thread, the POST /query request it is handling
    served          \* POST /query requests answered so far

ingVars == <<store, nextId, ingPc, pending, rowsDone, added_count,
             skipped_count, fileError, runs, columns, hist, cli>>

embVars == <<index, indexExists, embPc, embArgs, offset, total_success,
             total_errors, lastCall, embHist>>

statsVars == <<statsPc, stats, filtersPc, filters>>

queryVars == <<pipes, rag_pipeline, req, served>>

apiVars == <<statsVars, queryVars>>

vars == <<ingVars, embVars, apiVars>>

\* ------------------------------------------------------------ CSV rows
\* The five columns ingest_who_csv reads, in the order it reads them.
Fields == <<"IndicatorName", "Location", "Period", "Dim1", "Value">>

FieldSet == {Fields[i] : i \in 1..Len(Fields)}

FieldLabel(f) ==
    CASE f = "IndicatorName" -> "Indicator: "
      [] f = "Location"      -> "Location: "
      [] f = "Period"        -> "Period: "
      [] f = "Dim1"          -> "Dimension 1: "
      [] f = "Value"         -> "Value: "

\* The cell pandas gives an empty field, and the JSON null it is cleaned to.
NaN == "NaN"
None == "None"

\* The column sets of the files the model ingests: recognized columns with an
\* extra one, other recognized columns alone, and a file with none of them.
ColumnSets ==
    { {"IndicatorName", "Value", "country"},
      {"Location", "Period", "Dim1"},
      {"country", "year"} }

\* The rows of a data frame with columns cols: per column a value or NaN.
RowsOver(cols) == [cols -> {"x", NaN}]

\* The two rows that fill a long file: every cell filled, every cell empty.
UniformRows(cols) == { [c \in cols |-> "x"], [c \in cols |-> NaN] }

\* The rows a file can hold at position i (from 0): its first row is any row
\* over its columns, the later ones are uniform.
FileRows(cols, i) == IF i = 0 THEN RowsOver(cols) ELSE UniformRows(cols)

\* A row none of whose recognized columns holds a value: each is absent from
\* the file or empty in this row.
AllBlank(row) == \A f \in FieldSet : f \notin DOMAIN row \/ row[f] = NaN

\* notna as it would be if it never recognized an empty cell.
notna_NeverBlank(v) == TRUE

\* pd.notna(v)
notna(v) == v # NaN

\* content_parts after the five appends: one "<label><value>" string per
\* recognized column that the row has with a non-NaN cell, in reading order.
RECURSIVE ContentPartsFrom(_, _)
ContentPartsFrom(row, i) ==
    IF i > Len(Fields) THEN <<>>
    ELSE LET f == Fields[i]
             rest == ContentPartsFrom(row, i + 1)
         IN IF f \in DOMAIN row /\ notna(row[f])
            THEN <<FieldLabel(f) \o row[f]>> \o rest
            ELSE rest

\* content_parts as it would be if the append for 'Value' were missing.
content_parts_WithoutValue(row) ==
    ContentPartsFrom([f \in DOMAIN row \ {"Value"} |-> row[f]], 1)

content_parts(row) == ContentPartsFrom(row, 1)

\* "; ".join(parts)
RECURSIVE Join(_)
Join(parts) ==
    IF Len(parts) = 0 THEN ""
    ELSE IF Len(parts) = 1 THEN parts[1]
    ELSE parts[1] \o "; " \o Join(Tail(parts))

\* {k: v if pd.notna(v) else None for k, v in row.to_dict().items()}
metadata_cleaned(row) == [k \in DOMAIN row |-> IF notna(row[k]) THEN row[k] ELSE None]

\* DataRecord(source='who_csv', content=content, metadata=metadata_cleaned);
\* id is assigned by the flush of the commit that persists it.
NewRecord(row) ==
    [source |-> "who_csv", content |-> Join(content_parts(row)),
     metadata |-> metadata_cleaned(row)]

\* ------------------------------------------------------------ the session
\* Session.commit(): flush the pending objects (INSERT, ids from the sequence)
\* and commit the transaction.
RECURSIVE Flush(_, _)
Flush(objs, id) ==
    IF Len(objs) = 0 THEN <<>>
    ELSE <<[id |-> id, source |-> objs[1].source, content |-> objs[1].content,
            metadata |-> objs[1].metadata]>> \o Flush(Tail(objs), id + 1)

Committed(st, objs, id) == st \o Flush(objs, id)

\* Session.rollback(): every pending object is expunged.
RolledBack(objs) == <<>>

\* ------------------------------------------------------------ ingest.py main
\* The values --source accepts (argparse choices, line 111).
Choices == {"who_csv", "cdc_api", "pubmed_api", "purchased", "web_scrape"}

\* The four optional arguments, each None when it is not given.
NoArgs == [path |-> None, endpoint |-> None, query |-> None, url |-> None]

\* Before main has run: no arguments, no session, no exit status.
NoCli == [source |-> None, args |-> NoArgs, session |-> "none", exit |-> 0]

\* Python's "not v" for an optional string.
Not(v) == v = None \/ v = ""

\* The exit status as it would be if main called the ingestion functions
\* without testing their argument.
ExitStatus_Unchecked(source, args) == 0

\* The if/elif chain of main (lines 121-148) for the paths that do not reach
\* ingest_who_csv: 1 where it calls sys.exit(1), 0 where a placeholder
\* function runs and returns.
ExitStatus(source, args) ==
    IF source = "who_csv" THEN (IF Not(args.path) THEN 1 ELSE 0)
    ELSE IF source = "cdc_api" THEN (IF Not(args.endpoint) THEN 1 ELSE 0)
    ELSE IF source = "pubmed_api" THEN (IF Not(args.query) THEN 1 ELSE 0)
    ELSE IF source = "purchased" THEN (IF Not(args.path) THEN 1 ELSE 0)
    ELSE IF source = "web_scrape" THEN (IF Not(args.url) THEN 1 ELSE 0)
    ELSE 1

\* ------------------------------------------------------------ ingestion
NoHist == [blank |-> 0, rowErr |-> 0, commitErr |-> 0, base |-> 0]

Failures(h) == h.rowErr + h.commitErr

\* ingest_who_csv up to the row loop: pd.read_csv(file_path), the counters.
\* readOk = FALSE is read_csv raising (FileNotFoundError or a parse error);
\* cols are the columns of the file read.
IngestStart(readOk, cols) ==
    /\ ingPc = "idle"
    /\ runs < MaxRuns
    /\ runs' = runs + 1
    /\ rowsDone' = 0
    /\ added_count' = 0
    /\ skipped_count' = 0
    /\ hist' = [NoHist EXCEPT !.base = Len(store)]
    /\ cli' = [source |-> "who_csv", args |-> [NoArgs EXCEPT !.path = "who.csv"],
               session |-> "open", exit |-> 0]
    /\ IF readOk
       THEN /\ columns' = cols
            /\ ingPc' = "rows"
            /\ fileError' = FALSE
            /\ pending' = pending
       ELSE /\ columns' = {}
            /\ ingPc' = "done"
            /\ fileError' = TRUE
            /\ pending' = RolledBack(pending)
    /\ UNCHANGED <<store, nextId, embVars, apiVars>>

\* What the run has been fed and has raised so far, after one more row: a row
\* that raises counts as rowErr, a row with no recognized non-blank field as
\* blank, a failed periodic commit as commitErr.
HistAfter(h, row, raises, commitFails) ==
    [h EXCEPT !.rowErr = @ + (IF raises THEN 1 ELSE 0),
              !.blank = @ + (IF ~raises /\ AllBlank(row) THEN 1 ELSE 0),
              !.commitErr = @ + (IF commitFails THEN 1 ELSE 0)]

\* One iteration of the row loop (lines 30-70) on the next row of the file.
\* raises: building the row's content, metadata or record raises.
\* commitOk: the periodic db.commit() succeeds (read only when it is reached).
ProcessRow(row, raises, commitOk) ==
    LET content == Join(content_parts(row)) IN
    /\ rowsDone' = rowsDone + 1
    /\ IF raises
       THEN \* except Exception as row_error: rollback, count, continue
            /\ pending' = RolledBack(pending)
            /\ skipped_count' = skipped_count + 1
            /\ UNCHANGED <<added_count, store, nextId>>
       ELSE IF content = ""
       THEN \* if not content: skipped_count += 1; continue
            /\ skipped_count' = skipped_count + 1
            /\ UNCHANGED <<added_count, pending, store, nextId>>
       ELSE IF (added_count + 1) % CommitEvery # 0
       THEN \* db.add(record); added_count += 1
            /\ pending' = Append(pending, NewRecord(row))
            /\ added_count' = added_count + 1
            /\ UNCHANGED <<skipped_count, store, nextId>>
       ELSE IF commitOk
       THEN \* db.add(record); added_count += 1; db.commit()
            /\ added_count' = added_count + 1
            /\ store' = Committed(store, Append(pending, NewRecord(row)), nextId)
            /\ nextId' = nextId + Len(pending) + 1
            /\ pending' = <<>>
            /\ UNCHANGED skipped_count
       ELSE \* db.add(record); added_count += 1; db.commit() raises:
            \* the row's except clause rolls back and counts the row skipped
            /\ added_count' = added_count + 1
            /\ pending' = RolledBack(Append(pending, NewRecord(row)))
            /\ skipped_count' = skipped_count + 1
            /\ UNCHANGED <<store, nextId>>

\* The periodic commit is reached by this row: it is added as the
\* CommitEvery-th, 2*CommitEvery-th, ... record of the run.
ReachesCommit(row, raises) ==
    /\ ~raises
    /\ Join(content_parts(row)) # ""
    /\ (added_count + 1) % CommitEvery = 0

\* The row loop takes the next row of a file of at most cap rows.
IngestRow(cap) ==
    /\ ingPc = "rows"
    /\ rowsDone < cap
    /\ \E row \in FileRows(columns, rowsDone) :
       \E raises \in BOOLEAN, commitOk \in BOOLEAN :
          /\ raises => Failures(hist) < MaxFailures
          /\ ~commitOk => ReachesCommit(row, raises) /\ Failures(hist) < MaxFailures
          /\ (~raises /\ AllBlank(row)) => hist.blank < MaxBlankRows
          /\ ProcessRow(row, raises, commitOk)
          /\ hist' = HistAfter(hist, row, raises, ~commitOk)
    /\ UNCHANGED <<ingPc, fileError, runs, columns, cli, embVars, apiVars>>

\* The end of the file: db.commit() of the remaining records (line 72); when
\* it raises, the outer except rolls the pending transaction back (line 78).
IngestFinish(commitOk) ==
    /\ ingPc = "rows"
    /\ ingPc' = "done"
    /\ IF commitOk
       THEN /\ store' = Committed(store, pending, nextId)
            /\ nextId' = nextId + Len(pending)
            /\ pending' = <<>>
            /\ UNCHANGED <<fileError, hist>>
       ELSE /\ pending' = RolledBack(pending)
            /\ fileError' = TRUE
            /\ hist' = [hist EXCEPT !.commitErr = @ + 1]
            /\ UNCHANGED <<store, nextId>>
    /\ UNCHANGED <<rowsDone, added_count, skipped_count, runs, columns, cli,
                   embVars, apiVars>>

\* main's finally: db.close(); the process ends.
IngestExit ==
    /\ ingPc = "done"
    /\ ingPc' = "idle"
    /\ pending' = <<>>
    /\ cli' = [cli EXCEPT !.session = "closed"]
    /\ UNCHANGED <<store, nextId, rowsDone, added_count, skipped_count,
                   fileError, runs, columns, hist, embVars, apiVars>>

\* main with a --source that is not one of the choices: parse_args reports
\* the usage error and exits with status 2 (line 117), before the session is
\* made.
MainUsageError(source) ==
    /\ ingPc = "idle"
    /\ runs < MaxRuns
    /\ source \notin Choices
    /\ runs' = runs + 1
    /\ hist' = [NoHist EXCEPT !.base = Len(store)]
    /\ cli' = [source |-> source, args |-> NoArgs, session |-> "none", exit |-> 2]
    /\ UNCHANGED <<store, nextId, ingPc, pending, rowsDone, added_count,
                   skipped_count, fileError, columns, embVars, apiVars>>

\* main on the paths that do not reach ingest_who_csv (lines 117-148): the
\* session is made, then the required argument is missing and sys.exit(1) is
\* raised, or a placeholder function runs and returns; the finally clause is
\* next.
MainDispatch(source, args) ==
    /\ ingPc = "idle"
    /\ runs < MaxRuns
    /\ source \in Choices
    /\ ~(source = "who_csv" /\ ~Not(args.path))
    /\ runs' = runs + 1
    /\ hist' = [NoHist EXCEPT !.base = Len(store)]
    /\ ingPc' = "done"
    /\ cli' = [source |-> source, args |-> args, session |-> "open",
               exit |-> ExitStatus(source, args)]
    /\ UNCHANGED <<store, nextId, pending, rowsDone, added_count, skipped_count,
                   fileError, columns, embVars, apiVars>>

\* ------------------------------------------------------------ the query
\* --limit when it is not given (argparse's None), as an integer.
NoLimit == -1

\* A SQLAlchemy Select over records: its WHERE source, LIMIT and OFFSET.
\* limit() and offset() are generative and set the one clause the statement
\* has: a second limit() replaces the first.
Select == [where |-> None, limit |-> NoLimit, offset |-> 0]

Where(q, source) == [q EXCEPT !.where = source]

Limit(q, n) == [q EXCEPT !.limit = n]

Offset(q, n) == [q EXCEPT !.offset = n]

RECURSIVE Filter(_, _)
Filter(recs, source) ==
    IF Len(recs) = 0 THEN <<>>
    ELSE IF recs[1].source = source THEN <<recs[1]>> \o Filter(Tail(recs), source)
    ELSE Filter(Tail(recs), source)

Min(a, b) == IF a < b THEN a ELSE b

\* The statement has no ORDER BY, so each execution delivers the rows in an
\* order of the database's choosing.  The orders modelled are those of a
\* sequential scan that starts at any row of the table and wraps around.
Orderings(table) ==
    IF Len(table) = 0 THEN {<<>>}
    ELSE {[i \in 1..Len(table) |-> table[((i + start - 2) % Len(table)) + 1]] :
             start \in 1..Len(table)}

\* db_session.execute(q).scalars().all() on the committed rows in the order
\* table of this execution: the rows that match, from OFFSET on, at most
\* LIMIT of them.
Execute(q, table) ==
    LET matching == IF q.where = None THEN table ELSE Filter(table, q.where)
        from == q.offset + 1
        upto == IF q.limit = NoLimit THEN Len(matching)
                ELSE Min(Len(matching), from - 1 + q.limit)
    IN SubSeq(matching, from, upto)

\* Python truthiness: a string is falsy when None or empty, an optional
\* integer when None or 0.
FalsyStr(v) == v = None \/ v = ""

FalsyInt(n) == n = NoLimit \/ n = 0

\* The query get_records_to_embed builds (lines 70-81) ...
BaseQuery(source, limit) ==
    LET q1 == IF FalsyStr(source) THEN Select ELSE Where(Select, source)
    IN IF FalsyInt(limit) THEN q1 ELSE Limit(q1, limit)

\* ... and the batch query of one iteration (line 86).
BatchQuery(source, limit, off, batch_size) ==
    Limit(Offset(BaseQuery(source, limit), off), batch_size)

\* ------------------------------------------------------------ the index
Digit(d) ==
    CASE d = 0 -> "0" [] d = 1 -> "1" [] d = 2 -> "2" [] d = 3 -> "3"
      [] d = 4 -> "4" [] d = 5 -> "5" [] d = 6 -> "6" [] d = 7 -> "7"
      [] d = 8 -> "8" [] d = 9 -> "9"

\* str(n) of a non-negative integer
RECURSIVE str(_)
str(n) == IF n < 10 THEN Digit(n) ELSE str(n \div 10) \o Digit(n % 10)

\* The metadata keys copied into the index (line 119).
AllowList == {"region", "country", "year", "type", "category"}

\* prepare_metadata as it would be without the "is not None" test of line 120.
prepare_metadata_KeepsNull(record) ==
    LET md == record.metadata
    IN [k \in {"record_id", "source"} \cup (AllowList \cap DOMAIN md) |->
           IF k = "record_id" THEN record.id
           ELSE IF k = "source" THEN record.source
           ELSE md[k]]

\* prepare_metadata(record)
prepare_metadata(record) ==
    LET md == record.metadata
        kept == IF DOMAIN md = {} THEN {}
                ELSE {k \in AllowList : k \in DOMAIN md /\ md[k] # None}
    IN [k \in {"record_id", "source"} \cup kept |->
           IF k = "record_id" THEN record.id
           ELSE IF k = "source" THEN record.source
           ELSE md[k]]

\* Vector as it would be if it were keyed by the position after the record's.
Vector_KeyOffByOne(record, embedding) ==
    [id |-> str(record.id + 1), values |-> embedding,
     metadata |-> prepare_metadata(record)]

\* The vector the job upserts for a record: (str(record.id), embedding, metadata)
Vector(record, embedding) ==
    [id |-> str(record.id), values |-> embedding, metadata |-> prepare_metadata(record)]

\* upsert as it would be if it inserted without overwriting.
Upsert_InsertOnly(idx, vectors) == idx \cup vectors

\* pinecone_index.upsert(vectors): insert, overwriting the entries of the same id.
Upsert(idx, vectors) ==
    {e \in idx : \A v \in vectors : v.id # e.id} \cup vectors

\* ------------------------------------------------------------ embedding job
\* The values an embedding can take (the service's answer for a content).
Embeddings == {"e1", "e2"}

NoCall == [ids |-> <<>>, batchOk |-> TRUE, okAt |-> {}, success |-> 0, errors |-> 0]

NoEmbHist == [runs |-> 0, yielded |-> <<>>, last |-> <<>>]

\* main up to the loop: parse the arguments, initialize_pinecone (which
\* creates the index when it is missing), reset the totals.
EmbedStart(source, limit, batch_size) ==
    /\ embPc = "idle"
    /\ embHist.runs < MaxEmbedRuns
    /\ embPc' = "batches"
    /\ embArgs' = [source |-> source, limit |-> limit, batch_size |-> batch_size]
    /\ indexExists' = TRUE
    /\ offset' = 0
    /\ total_success' = 0
    /\ total_errors' = 0
    /\ lastCall' = NoCall
    /\ embHist' = [embHist EXCEPT !.runs = @ + 1, !.yielded = <<>>]
    /\ UNCHANGED <<index, ingVars, apiVars>>

Range(seq) == {seq[i] : i \in 1..Len(seq)}

\* The one-by-one loop as it would be if the try enclosed the loop instead of
\* its body: the first record that raises ends it.
RECURSIVE OneByOne_StopsAtFirstError(_, _, _, _, _, _, _)
OneByOne_StopsAtFirstError(records, okAt, embedding, i, idx, success, errors) ==
    IF i > Len(records) THEN [index |-> idx, success |-> success, errors |-> errors]
    ELSE IF i \in okAt
    THEN OneByOne_StopsAtFirstError(records, okAt, embedding, i + 1,
             Upsert(idx, {Vector(records[i], embedding)}), success + 1, errors)
    ELSE [index |-> idx, success |-> success, errors |-> errors + 1]

\* The except branch of embed_and_store_records (lines 172-193): a loop over
\* the batch from position i on; each record is embedded and upserted in its
\* own try, counted in success when that works and in errors when it raises.
\* okAt: the positions whose attempt succeeds.
RECURSIVE OneByOne(_, _, _, _, _, _, _)
OneByOne(records, okAt, embedding, i, idx, success, errors) ==
    IF i > Len(records) THEN [index |-> idx, success |-> success, errors |-> errors]
    ELSE IF i \in okAt
    THEN OneByOne(records, okAt, embedding, i + 1,
                  Upsert(idx, {Vector(records[i], embedding)}), success + 1, errors)
    ELSE OneByOne(records, okAt, embedding, i + 1, idx, success, errors + 1)

\* embed_and_store_records(records, embedding_client, pinecone_index): the
\* index afterwards and the returned (success_count, error_count).
\* batchOk: embed_batch and the batch upsert both succeed.
embed_and_store_records(records, idx, batchOk, okAt, embedding) ==
    IF Len(records) = 0 THEN [index |-> idx, success |-> 0, errors |-> 0]
    ELSE IF batchOk
    THEN [index |-> Upsert(idx, {Vector(records[i], embedding) : i \in 1..Len(records)}),
          success |-> Len(records), errors |-> 0]
    ELSE OneByOne(records, okAt, embedding, 1, idx, 0, 0)

\* The generator's test after a batch (lines 94-96): stop once offset >= limit.
LimitReached(limit, off) == ~FalsyInt(limit) /\ off >= limit

\* The job's history after a call: the ids yielded so far, and per record id
\* the embedding of its last successful upsert.
EmbHistAfter(h, batch, batchOk, okAt, embedding) ==
    [h EXCEPT
       !.yielded = @ \o [i \in 1..Len(batch) |-> batch[i].id],
       !.last = [id \in DOMAIN h.last \cup Range([i \in 1..Len(batch) |-> batch[i].id]) |->
                   IF \E i \in 1..Len(batch) : batch[i].id = id /\ (batchOk \/ i \in okAt)
                   THEN embedding
                   ELSE IF id \in DOMAIN h.last THEN h.last[id] ELSE None]]

\* One iteration of main's loop: the generator runs the batch query; an empty
\* batch ends the loop; otherwise embed_and_store_records(batch) runs, the
\* totals are added, and the generator advances offset and tests the limit.
EmbedBatch(batchOk, okAt, embedding) ==
    \E scan \in Orderings(store) :
       LET batch == Execute(BatchQuery(embArgs.source, embArgs.limit, offset,
                                       embArgs.batch_size), scan)
           res == embed_and_store_records(batch, index, batchOk, okAt, embedding)
       IN
       /\ embPc = "batches"
       /\ okAt \subseteq 1..Len(batch)
       /\ batchOk => okAt = 1..Len(batch)
       /\ IF Len(batch) = 0
          THEN /\ embPc' = "done"
               /\ UNCHANGED <<index, offset, total_success, total_errors, lastCall,
                              embHist>>
          ELSE /\ index' = res.index
               /\ total_success' = total_success + res.success
               /\ total_errors' = total_errors + res.errors
               /\ lastCall' = [ids |-> [i \in 1..Len(batch) |-> batch[i].id],
                               batchOk |-> batchOk, okAt |-> okAt,
                               success |-> res.success, errors |-> res.errors]
               /\ offset' = offset + Len(batch)
               /\ embPc' = IF LimitReached(embArgs.limit, offset + Len(batch))
                           THEN "done" ELSE "batches"
               /\ embHist' = EmbHistAfter(embHist, batch, batchOk, okAt, embedding)
       /\ UNCHANGED <<indexExists, embArgs, ingVars, apiVars>>

\* main's finally: db.close(); the job can be run again.
EmbedExit ==
    /\ embPc = "done"
    /\ embPc' = "idle"
    /\ UNCHANGED <<index, indexExists, embArgs, offset, total_success,
                   total_errors, lastCall, embHist, ingVars, apiVars>>

EmbedNext ==
    \/ \E source \in {None, "who_csv", "cdc_api"},
          limit \in {NoLimit} \cup 1..MaxLimit,
          batch_size \in 1..MaxBatch : EmbedStart(source, limit, batch_size)
    \/ \E batchOk \in BOOLEAN, okAt \in SUBSET (1..MaxBatch), embedding \in Embeddings :
          EmbedBatch(batchOk, okAt, embedding)
    \/ EmbedExit

\* ------------------------------------------------------------ error responses
\* HTTPException(status_code=..., detail=...): the error response FastAPI sends.
HTTPException(status_code, detail) == [status |-> status_code, detail |-> detail]

\* get_rag_pipeline's except clause (line 38), for an exception of message e.
InitializationError(e) == HTTPException(500, "Failed to initialize RAG pipeline: " \o e)

\* The response as it would be if query_assistant had no except clause: the
\* exception escapes and the server answers its plain 500.
QueryProcessingError_Escapes(e) == HTTPException(500, "Internal Server Error")

\* query_assistant's except clause (line 111).
QueryProcessingError(e) == HTTPException(500, "Query processing error: " \o e)

\* get_statistics' except clause (line 132).
DatabaseError(e) == HTTPException(500, "Database error: " \o e)

\* ------------------------------------------------------------ GET /stats
NoStats == [status |-> 0, detail |-> "", raised |-> "", total_records |-> 0,
            by_source |-> <<>>]

\* db.query(DataRecord).count() (line 118): the committed rows at this moment;
\* dbOk = FALSE is the database refusing the query, which the except clause
\* turns into a 500.
StatsCount ==
    /\ statsPc = "idle"
    /\ \E dbOk \in BOOLEAN :
          IF dbOk
          THEN /\ statsPc' = "counted"
               /\ stats' = [NoStats EXCEPT !.total_records = Len(store)]
          ELSE /\ statsPc' = "done"
               /\ stats' = [NoStats EXCEPT
                               !.raised = "OperationalError",
                               !.status = DatabaseError("OperationalError").status,
                               !.detail = DatabaseError("OperationalError").detail]
    /\ UNCHANGED <<filtersPc, filters, ingVars, embVars, queryVars>>

\* Line 122 evaluates db.func.count(DataRecord.id) as an argument of db.query.
\* db is the Session that get_db yields, and a Session has no attribute func
\* (func is a name of the sqlalchemy package), so the evaluation raises
\* AttributeError before the GROUP BY query is issued; the handler's except
\* turns it into HTTPException(status_code=500).
StatsBySource ==
    LET e == "'Session' object has no attribute 'func'" IN
    /\ statsPc = "counted"
    /\ statsPc' = "done"
    /\ stats' = [stats EXCEPT !.raised = e,
                              !.status = DatabaseError(e).status,
                              !.detail = DatabaseError(e).detail]
    /\ UNCHANGED <<filtersPc, filters, ingVars, embVars, queryVars>>

\* The response is sent; the next request can come.
StatsReturn ==
    /\ statsPc = "done"
    /\ statsPc' = "idle"
    /\ stats' = NoStats
    /\ UNCHANGED <<filtersPc, filters, ingVars, embVars, queryVars>>

StatsNext == StatsCount \/ StatsBySource \/ StatsReturn

\* ------------------------------------------------------------ GET /filters
NoResponse == [status |-> 0, detail |-> "", raised |-> "", fields |-> {}]

\* get_filter_options (lines 143-147): the hard-coded list of three options;
\* nothing in the try block can raise.
GetFilterOptions ==
    /\ filtersPc = "idle"
    /\ filtersPc' = "done"
    /\ filters' = [NoResponse EXCEPT !.status = 200,
                                     !.fields = {"country", "year", "source"}]
    /\ UNCHANGED <<statsPc, stats, ingVars, embVars, queryVars>>

FiltersReturn ==
    /\ filtersPc = "done"
    /\ filtersPc' = "idle"
    /\ filters' = NoResponse
    /\ UNCHANGED <<statsPc, stats, ingVars, embVars, queryVars>>

FiltersNext == GetFilterOptions \/ FiltersReturn

\* ------------------------------------------------------------ strings
\* A query_type is a sequence of characters.
LowerChar(c) ==
    CASE c = "P" -> "p" [] c = "A" -> "a" [] c = "R" -> "r" [] c = "T" -> "t"
      [] c = "N" -> "n" [] c = "E" -> "e" [] c = "M" -> "m" [] c = "K" -> "k"
      [] c = "S" -> "s" [] OTHER -> c

\* lower as it would be if query compared query_type as given.
lower_AsGiven(s) == s

\* s.lower()
lower(s) == [i \in 1..Len(s) |-> LowerChar(s[i])]

Partner == <<"p", "a", "r", "t", "n", "e", "r">>

\* ------------------------------------------------------------ the pipeline
\* Documents retrieved per query (search_kwargs k).
TopK == 10

\* A retriever: the vector store's similarity search, with an equality filter
\* or none, wrapped in the contextual compression retriever or not.
Retriever(filtered, filter, compressed) ==
    [filtered |-> filtered, filter |-> filter, compressed |-> compressed]

\* vectorstore.as_retriever(search_type="similarity", search_kwargs={"k": 10})
BaseRetriever == Retriever(FALSE, <<>>, FALSE)

\* ContextualCompressionRetriever(base_compressor=..., base_retriever=r)
Compressing(r) == [r EXCEPT !.compressed = TRUE]

\* The filtered retriever as it would be if filter_by_metadata wrapped it in
\* the compression retriever as __init__ does.
FilteredRetriever_Compressed(metadata_filters) == Retriever(TRUE, metadata_filters, TRUE)

\* The filtered retriever as it would be if "filter" were left out of
\* search_kwargs.
FilteredRetriever_NoFilter(metadata_filters) == Retriever(FALSE, <<>>, FALSE)

\* vectorstore.as_retriever(search_type="similarity",
\*                          search_kwargs={"k": 10, "filter": metadata_filters})
FilteredRetriever(metadata_filters) == Retriever(TRUE, metadata_filters, FALSE)

\* _create_qa_chain(template): a RetrievalQA chain over the retriever that
\* self.retriever holds when it is called.
CreateQaChain(pipe, template) == [template |-> template, retriever |-> pipe.retriever]

\* RAGPipeline.__init__(use_contextual_compression=True), lines 72-90.
NewPipeline ==
    LET p0 == [retriever |-> Compressing(BaseRetriever)]
    IN [retriever |-> p0.retriever,
        default_qa |-> CreateQaChain(p0, "MARKET_EXPANSION"),
        partner_qa |-> CreateQaChain(p0, "PARTNER_DISCOVERY")]

\* The filter as it would be if the index ignored it.
Matches_Always(md, filter) == TRUE

\* An index entry satisfies a Pinecone equality filter: it has every key of the
\* filter with the filter's value.
Matches(md, filter) == \A k \in DOMAIN filter : k \in DOMAIN md /\ md[k] = filter[k]

\* The vector store's document for an entry: the text under text_key
\* ("content") becomes page_content, the other attributes the metadata.
Document(e) ==
    [page_content |-> e.metadata["content"],
     metadata |-> [k \in DOMAIN e.metadata \ {"content"} |-> e.metadata[k]]]

\* The document sets a similarity search of retriever r can return: the k
\* nearest entries among those that satisfy its filter, as documents; entries
\* without the text key are left out.
SearchResults(r, idx) ==
    LET hits == {e \in idx : ~r.filtered \/ Matches(e.metadata, r.filter)}
        nearest == {S \in SUBSET hits : Cardinality(S) = Min(TopK, Cardinality(hits))}
    IN {{Document(e) : e \in {h \in S : "content" \in DOMAIN h.metadata}} : S \in nearest}

\* The source documents a chain's retriever can return: the search results,
\* of which the compression step keeps those it extracts something from.
Retrievals(r, idx) ==
    IF r.compressed
    THEN UNION {SUBSET docs : docs \in SearchResults(r, idx)}
    ELSE SearchResults(r, idx)

\* The chain RAGPipeline.query runs for a query_type (lines 118-121).
ChainFor(pipe, query_type) ==
    IF lower(query_type) = Partner THEN pipe.partner_qa ELSE pipe.default_qa

\* ------------------------------------------------------------ POST /query
Threads == {1, 2}

NoFilters == [given |-> FALSE, map |-> <<>>]

\* Truthiness as it would be if line 89 tested "is not None".
Truthy_IsNotNone(metadata_filters) == metadata_filters.given

\* request.metadata_filters is truthy: given and not an empty map.
Truthy(metadata_filters) == metadata_filters.given /\ DOMAIN metadata_filters.map # {}

\* The local result of a _create_qa_chain call before any call was made.
NoChain == [template |-> "", retriever |-> BaseRetriever]

IdleReq ==
    [pc |-> "idle", query_type |-> <<>>, metadata_filters |-> NoFilters, rag |-> 0,
     chain |-> NoChain, status |-> 0, detail |-> "", raised |-> "",
     template |-> "", used |-> BaseRetriever, sources |-> {}]

\* A POST /query request reaches worker thread t.
QueryArrive(t, query_type, metadata_filters) ==
    /\ req[t].pc = "idle"
    /\ served < MaxRequests
    /\ req' = [req EXCEPT ![t] = [IdleReq EXCEPT !.pc = "depends",
                                     !.query_type = query_type,
                                     !.metadata_filters = metadata_filters]]
    /\ UNCHANGED <<pipes, rag_pipeline, served, statsVars, ingVars, embVars>>

\* get_rag_pipeline, line 34: the test of the global; when it is set, line 39
\* returns it.
GetRagPipeline(t) ==
    /\ req[t].pc = "depends"
    /\ req' = [req EXCEPT ![t].pc = IF rag_pipeline = 0 THEN "construct" ELSE "handler",
                          ![t].rag = rag_pipeline]
    /\ UNCHANGED <<pipes, rag_pipeline, served, statsVars, ingVars, embVars>>

\* The construction as it would be without the test of list_indexes().
ConstructPipeline_NoIndexCheck(t) ==
    /\ req[t].pc = "construct"
    /\ pipes' = Append(pipes, NewPipeline)
    /\ rag_pipeline' = Len(pipes) + 1
    /\ req' = [req EXCEPT ![t].pc = "return"]
    /\ UNCHANGED <<served, statsVars, ingVars, embVars>>

\* get_rag_pipeline, lines 35-38: _rag_pipeline = RAGPipeline(); the
\* constructor raises when the index does not exist, which becomes a 500 and
\* leaves the global as it was.
ConstructPipeline(t) ==
    /\ req[t].pc = "construct"
    /\ IF indexExists
       THEN /\ pipes' = Append(pipes, NewPipeline)
            /\ rag_pipeline' = Len(pipes) + 1
            /\ req' = [req EXCEPT ![t].pc = "return"]
       ELSE LET e == "Pinecone index does not exist" IN
            /\ req' = [req EXCEPT ![t].pc = "done", ![t].raised = e,
                                  ![t].status = InitializationError(e).status,
                                  ![t].detail = InitializationError(e).detail]
            /\ UNCHANGED <<pipes, rag_pipeline>>
    /\ UNCHANGED <<served, statsVars, ingVars, embVars>>

\* get_rag_pipeline, line 39, after a construction: return _rag_pipeline reads
\* the global again.
ReturnPipeline(t) ==
    /\ req[t].pc = "return"
    /\ req' = [req EXCEPT ![t].pc = "handler", ![t].rag = rag_pipeline]
    /\ UNCHANGED <<pipes, rag_pipeline, served, statsVars, ingVars, embVars>>

\* query_assistant, line 89: filters given go to rag.filter_by_metadata.
EnterHandler(t) ==
    /\ req[t].pc = "handler"
    /\ req' = [req EXCEPT ![t].pc = IF Truthy(req[t].metadata_filters)
                                    THEN "set_retriever" ELSE "query"]
    /\ UNCHANGED <<pipes, rag_pipeline, served, statsVars, ingVars, embVars>>

\* filter_by_metadata, lines 136-145: self.retriever = filtered_retriever
SetRetriever(t) ==
    /\ req[t].pc = "set_retriever"
    /\ pipes' = [pipes EXCEPT ![req[t].rag].retriever =
                    FilteredRetriever(req[t].metadata_filters.map)]
    /\ req' = [req EXCEPT ![t].pc = "create_default_qa"]
    /\ UNCHANGED <<rag_pipeline, served, statsVars, ingVars, embVars>>

\* filter_by_metadata, line 148, the call: _create_qa_chain reads
\* self.retriever (line 102) and builds the chain it will return.
CreateDefaultQa(t) ==
    /\ req[t].pc = "create_default_qa"
    /\ req' = [req EXCEPT ![t].pc = "set_default_qa",
                          ![t].chain = CreateQaChain(pipes[req[t].rag], "MARKET_EXPANSION")]
    /\ UNCHANGED <<pipes, rag_pipeline, served, statsVars, ingVars, embVars>>

\* filter_by_metadata, line 148, the assignment: self.default_qa = <the chain>
SetDefaultQa(t) ==
    /\ req[t].pc = "set_default_qa"
    /\ pipes' = [pipes EXCEPT ![req[t].rag].default_qa = req[t].chain]
    /\ req' = [req EXCEPT ![t].pc = "create_partner_qa"]
    /\ UNCHANGED <<rag_pipeline, served, statsVars, ingVars, embVars>>

\* filter_by_metadata, line 149, the call.
CreatePartnerQa(t) ==
    /\ req[t].pc = "create_partner_qa"
    /\ req' = [req EXCEPT ![t].pc = "set_partner_qa",
                          ![t].chain = CreateQaChain(pipes[req[t].rag], "PARTNER_DISCOVERY")]
    /\ UNCHANGED <<pipes, rag_pipeline, served, statsVars, ingVars, embVars>>

\* filter_by_metadata, line 149, the assignment: self.partner_qa = <the chain>
SetPartnerQa(t) ==
    /\ req[t].pc = "set_partner_qa"
    /\ pipes' = [pipes EXCEPT ![req[t].rag].partner_qa = req[t].chain]
    /\ req' = [req EXCEPT ![t].pc = "query", ![t].chain = NoChain]
    /\ UNCHANGED <<rag_pipeline, served, statsVars, ingVars, embVars>>

\* The exceptions rag.query and the formatting of its result can raise: the
\* vector search, the language model call, the SourceDocument validation.
QueryErrors == {"retrieval failed", "generation failed", "validation error"}

\* query_assistant, lines 93-111: rag.query runs the chain for the query
\* type, and the sources it returns go into the response; an exception in the
\* retrieval, the generation or the formatting (ok = FALSE) becomes a 500.
RunQuery(t, ok) ==
    LET chain == ChainFor(pipes[req[t].rag], req[t].query_type) IN
    /\ req[t].pc = "query"
    /\ IF ok
       THEN \E docs \in Retrievals(chain.retriever, index) :
               req' = [req EXCEPT ![t].pc = "done", ![t].status = 200,
                                  ![t].template = chain.template,
                                  ![t].used = chain.retriever,
                                  ![t].sources = docs]
       ELSE \E e \in QueryErrors :
               req' = [req EXCEPT ![t].pc = "done", ![t].raised = e,
                                  ![t].status = QueryProcessingError(e).status,
                                  ![t].detail = QueryProcessingError(e).detail]
    /\ UNCHANGED <<pipes, rag_pipeline, served, statsVars, ingVars, embVars>>

\* The response is sent and the worker thread is free again.
QueryReturn(t) ==
    /\ req[t].pc = "done"
    /\ req' = [req EXCEPT ![t] = IdleReq]
    /\ served' = served + 1
    /\ UNCHANGED <<pipes, rag_pipeline, statsVars, ingVars, embVars>>

\* The query_type values and filter maps the requests of the model carry.
QueryTypes ==
    { <<"p", "a", "r", "t", "n", "e", "r">>,
      <<"P", "a", "r", "t", "n", "e", "r">>,
      <<"P", "A", "R", "T", "N", "E", "R">>,
      <<"m", "a", "r", "k", "e", "t">>,
      <<"p", "a", "r", "t", "n", "e", "r", "s">>,
      <<>> }

FilterMaps ==
    { <<>>,
      [k \in {"country"} |-> "USA"],
      [k \in {"country", "year"} |-> IF k = "country" THEN "UK" ELSE "2020"],
      [k \in {"country"} |-> "Japan"] }

FilterInputs == {NoFilters} \cup {[given |-> TRUE, map |-> m] : m \in FilterMaps}

QueryNext(threads) ==
    \E t \in threads :
       \/ \E qt \in QueryTypes, mf \in FilterInputs : QueryArrive(t, qt, mf)
       \/ GetRagPipeline(t)
       \/ ConstructPipeline(t)
       \/ ReturnPipeline(t)
       \/ EnterHandler(t)
       \/ SetRetriever(t)
       \/ CreateDefaultQa(t)
       \/ SetDefaultQa(t)
       \/ CreatePartnerQa(t)
       \/ SetPartnerQa(t)
       \/ \E ok \in BOOLEAN : RunQuery(t, ok)
       \/ QueryReturn(t)

\* ------------------------------------------------------------ specifications
IngestIdle ==
    /\ nextId = Len(store) + 1
    /\ ingPc = "idle"
    /\ pending = <<>>
    /\ rowsDone = 0
    /\ added_count = 0
    /\ skipped_count = 0
    /\ fileError = FALSE
    /\ runs = 0
    /\ columns = {}
    /\ hist = NoHist
    /\ cli = NoCli

EmbedJobIdle ==
    /\ embPc = "idle"
    /\ embArgs = [source |-> None, limit |-> NoLimit, batch_size |-> 1]
    /\ offset = 0
    /\ total_success = 0
    /\ total_errors = 0
    /\ lastCall = NoCall
    /\ embHist = NoEmbHist

\* Before the embedding job has ever run the index does not exist.
EmbedIdle ==
    /\ index = {}
    /\ indexExists = FALSE
    /\ EmbedJobIdle

ApiIdle ==
    /\ statsPc = "idle"
    /\ stats = NoStats
    /\ filtersPc = "idle"
    /\ filters = NoResponse
    /\ pipes = <<>>
    /\ rag_pipeline = 0
    /\ req = [t \in Threads |-> IdleReq]
    /\ served = 0

\* One run of ingest_who_csv on a file of up to MaxRows rows, on an empty table.
InitIngest ==
    /\ store = <<>>
    /\ IngestIdle
    /\ EmbedIdle
    /\ ApiIdle

NextIngest ==
    \/ \E readOk \in BOOLEAN, cols \in ColumnSets : IngestStart(readOk, cols)
    \/ IngestRow(MaxRows)
    \/ \E commitOk \in BOOLEAN : IngestFinish(commitOk)

SpecIngest == InitIngest /\ [][NextIngest]_vars

\* The table after an ingestion of n rows of a file with the columns cols, the
\* rows alternately filled and filled in their first column only.
RowOf(cols, i) ==
    [c \in cols |-> IF i % 2 = 1 \/ c = CHOOSE d \in cols : TRUE THEN "x" ELSE NaN]

Ingested(cols, n) == Committed(<<>>, [i \in 1..n |-> NewRecord(RowOf(cols, i))], 1)

\* Runs of the embedding job over a table that ingestion has filled.
InitEmbed ==
    /\ \E n \in 0..MaxRecords : store = Ingested({"IndicatorName", "Value", "country"}, n)
    /\ IngestIdle
    /\ EmbedIdle
    /\ ApiIdle

SpecEmbed == InitEmbed /\ [][EmbedNext]_vars

\* The columns a CSV file can have beside 'Value': the keys the index keeps
\* and one it does not.
MetaColumns == AllowList \cup {"url"}

\* The table after the ingestion of a one-row file with the given row.
IngestedRow(row) == Committed(<<>>, <<NewRecord(row)>>, 1)

\* Runs of the embedding job over one record whose metadata has any of the
\* MetaColumns, each with a value or null.
InitMeta ==
    /\ \E K \in SUBSET MetaColumns :
          \E row \in RowsOver(K \cup {"Value"}) :
             /\ row["Value"] = "x"
             /\ store = IngestedRow(row)
    /\ IngestIdle
    /\ EmbedIdle
    /\ ApiIdle

NextMeta ==
    \/ EmbedStart(None, NoLimit, 1)
    \/ \E batchOk \in BOOLEAN, okAt \in SUBSET {1} : EmbedBatch(batchOk, okAt, "e1")
    \/ EmbedExit

SpecMeta == InitMeta /\ [][NextMeta]_vars

\* The command lines of the ingestion tool: --path given, given empty or
\* not given, the other three options given or not.
ArgInputs ==
    [path : {None, "", "who.csv"}, endpoint : {None, "https://cdc"},
     query : {None, "sepsis"}, url : {None, "https://site"}]

\* Invocations of the ingestion tool with any source and arguments.
NextCli ==
    \/ \E source \in {"statista", ""} : MainUsageError(source)
    \/ \E source \in Choices, args \in ArgInputs : MainDispatch(source, args)
    \/ \E readOk \in BOOLEAN : IngestStart(readOk, {"Value", "country"})
    \/ IngestRow(SmallRows)
    \/ \E commitOk \in BOOLEAN : IngestFinish(commitOk)
    \/ IngestExit

SpecCli == InitIngest /\ [][NextCli]_vars

\* An ingestion run on a small file and runs of the embedding job, as
\* separate processes interleaved over the table and the index.
Init == InitIngest

Next ==
    \/ \E readOk \in BOOLEAN : IngestStart(readOk, {"Value", "country"})
    \/ IngestRow(SmallRows)
    \/ \E commitOk \in BOOLEAN : IngestFinish(commitOk)
    \/ \E batch_size \in 1..MaxBatch :
          embHist.runs < MaxRuns /\ EmbedStart(None, NoLimit, batch_size)
    \/ \E batchOk \in BOOLEAN, okAt \in SUBSET (1..MaxBatch) :
          EmbedBatch(batchOk, okAt, "e1")
    \/ EmbedExit

Spec == Init /\ [][Next]_vars

\* GET /stats requests while an ingestion run fills the table.
NextStats ==
    \/ \E readOk \in BOOLEAN : IngestStart(readOk, {"Value", "country"})
    \/ IngestRow(SmallRows)
    \/ \E commitOk \in BOOLEAN : IngestFinish(commitOk)
    \/ IngestExit
    \/ StatsNext

SpecStats == InitIngest /\ [][NextStats]_vars

\* An index with entries of mixed metadata, one of them without the text key.
MixedIndex ==
    { [id |-> "1", values |-> "e1",
       metadata |-> [k \in {"content", "country", "year", "source"} |->
          CASE k = "content" -> "c1" [] k = "country" -> "USA"
            [] k = "year" -> "2020" [] k = "source" -> "who_csv"]],
      [id |-> "2", values |-> "e1",
       metadata |-> [k \in {"content", "country", "year", "source"} |->
          CASE k = "content" -> "c2" [] k = "country" -> "UK"
            [] k = "year" -> "2020" [] k = "source" -> "who_csv"]],
      [id |-> "3", values |-> "e2",
       metadata |-> [k \in {"content", "year"} |->
          CASE k = "content" -> "c3" [] k = "year" -> "2021"]],
      [id |-> "4", values |-> "e2",
       metadata |-> [k \in {"country", "source"} |->
          CASE k = "country" -> "USA" [] k = "source" -> "who_csv"]] }

\* POST /query requests served one at a time by one worker thread, over an
\* index of mixed metadata that exists or not.
InitQuery ==
    /\ store = <<>>
    /\ IngestIdle
    /\ EmbedJobIdle
    /\ ApiIdle
    /\ index = MixedIndex
    /\ indexExists \in BOOLEAN

SpecQuerySeq == InitQuery /\ [][QueryNext({1})]_vars

\* The three endpoints served side by side: POST /query one request at a
\* time, GET /stats and GET /filters.
NextApi == QueryNext({1}) \/ StatsNext \/ FiltersNext

SpecApi == InitQuery /\ [][NextApi]_vars

\* A server started before the embedding job has ever run: POST /query
\* requests one at a time, and runs of the job.
NextApiIndex ==
    \/ QueryNext({1})
    \/ EmbedStart(None, NoLimit, 1)
    \/ \E batchOk \in BOOLEAN, okAt \in SUBSET {1} : EmbedBatch(batchOk, okAt, "e1")
    \/ EmbedExit

SpecApiIndex == InitIngest /\ [][NextApiIndex]_vars

\* The requests of the concurrent specification: either chain, no filter or
\* one of two different filters.
ConcQueryTypes == { Partner, <<"m", "a", "r", "k", "e", "t">> }

ConcFilters ==
    { NoFilters,
      [given |-> TRUE, map |-> [k \in {"country"} |-> "USA"]],
      [given |-> TRUE, map |-> [k \in {"country"} |-> "UK"]] }

\* POST /query requests handled by the worker threads of the pool at the same
\* time: the steps of get_rag_pipeline, filter_by_metadata and query of one
\* request interleave with those of the other.
NextQueryConc ==
    \E t \in Threads :
       \/ \E qt \in ConcQueryTypes, mf \in ConcFilters : QueryArrive(t, qt, mf)
       \/ GetRagPipeline(t)
       \/ ConstructPipeline(t)
       \/ ReturnPipeline(t)
       \/ EnterHandler(t)
       \/ SetRetriever(t)
       \/ CreateDefaultQa(t)
       \/ SetDefaultQa(t)
       \/ CreatePartnerQa(t)
       \/ SetPartnerQa(t)
       \/ \E ok \in BOOLEAN : RunQuery(t, ok)
       \/ QueryReturn(t)

SpecQueryConc == InitQuery /\ [][NextQueryConc]_vars

\* ------------------------------------------------------------ claims
\* Records the current run has persisted: the rows committed since it started.
PersistedByRun == SubSeq(store, hist.base + 1, Len(store))

WhoRows(recs) == {i \in 1..Len(recs) : recs[i].source = "who_csv"}

RunClean == ingPc = "done" /\ ~fileError /\ Failures(hist) = 0

\* C1: a file of N rows that each have a recognized non-blank field, ingested
\* with nothing raised, adds exactly N who_csv records and ends with
\* added_count = N and skipped_count = 0, for N below and above CommitEvery.
C1_AllWellFormedAdded ==
    (RunClean /\ hist.blank = 0) =>
        /\ added_count = rowsDone
        /\ skipped_count = 0
        /\ Len(PersistedByRun) = rowsDone
        /\ Cardinality(WhoRows(PersistedByRun)) = rowsDone

C1_Witness ==
    RunClean /\ hist.blank = 0 /\ rowsDone > CommitEvery /\ Len(store) = rowsDone

\* C2: of N rows, the k rows with no recognized non-blank field are counted as
\* skipped and create no record, and the rows after them are still processed:
\* added = N - k, skipped = k, N - k rows stored with source who_csv.
C2_BlankRowsSkipped ==
    RunClean =>
        /\ added_count = rowsDone - hist.blank
        /\ skipped_count = hist.blank
        /\ Cardinality(WhoRows(PersistedByRun)) = rowsDone - hist.blank
        /\ \A i \in 1..Len(PersistedByRun) : PersistedByRun[i].content # ""

C2_Witness ==
    RunClean /\ rowsDone = 3 /\ hist.blank = 1 /\ added_count = 2
             /\ skipped_count = 1 /\ Len(store) = 2

\* C3: a row that raises is rolled back alone: the records of the other rows
\* that were added and not yet committed are persisted when the run finishes.
C3_OnlyFailedRowRolledBack ==
    (ingPc = "done" /\ ~fileError /\ hist.commitErr = 0) =>
        Len(PersistedByRun) = rowsDone - hist.blank - hist.rowErr

\* C4: however often the job is run, the index holds exactly one entry per
\* record that has been upserted, under the key str(record.id), with the
\* embedding of the last upsert and the record's metadata, whether the batch
\* path or the one-by-one path wrote it; it holds no other entry.
C4_IdempotentUpsert ==
    /\ \A id \in DOMAIN embHist.last :
          LET es == {e \in index : e.id = str(id)} IN
          IF embHist.last[id] = None THEN es = {}
          ELSE /\ Cardinality(es) = 1
               /\ \A e \in es : /\ e.values = embHist.last[id]
                                /\ \E i \in 1..Len(store) :
                                      /\ store[i].id = id
                                      /\ e.metadata = prepare_metadata(store[i])
    /\ Cardinality(index) =
          Cardinality({id \in DOMAIN embHist.last : embHist.last[id] # None})

C4_Witness ==
    /\ embHist.runs = 2
    /\ embPc = "done"
    /\ Len(store) >= 2
    /\ Cardinality(index) = Len(store)
    /\ total_success = Len(store)
    /\ ~lastCall.batchOk
    /\ \E e \in index : e.values = "e1"
    /\ \E e \in index : e.values = "e2"

\* C9: with --limit L the records yielded over all batches of a run number
\* at most L.
C9_LimitCapsYielded ==
    embArgs.limit # NoLimit => Len(embHist.yielded) <= embArgs.limit

\* C10: after a call whose batch embedding or upsert failed, every record of
\* the batch was attempted on its own: those whose attempt succeeded are in
\* the index and make up success_count, the others make up error_count, and
\* the two add up to the batch size.
C10_FallbackCountsEveryRecord ==
    ~lastCall.batchOk =>
        /\ lastCall.success = Cardinality(lastCall.okAt)
        /\ lastCall.errors = Len(lastCall.ids) - Cardinality(lastCall.okAt)
        /\ lastCall.success + lastCall.errors = Len(lastCall.ids)
        /\ \A i \in lastCall.okAt : \E e \in index : e.id = str(lastCall.ids[i])

C10_Witness ==
    /\ ~lastCall.batchOk
    /\ Len(lastCall.ids) = 2
    /\ lastCall.okAt = {2}
    /\ lastCall.success = 1
    /\ lastCall.errors = 1

\* Two characters are the same letter in either case.
UpperChar(c) ==
    CASE c = "p" -> "P" [] c = "a" -> "A" [] c = "r" -> "R" [] c = "t" -> "T"
      [] c = "n" -> "N" [] c = "e" -> "E" [] c = "m" -> "M" [] c = "k" -> "K"
      [] c = "s" -> "S" [] OTHER -> c

EqualsIgnoringCase(s, t) ==
    /\ Len(s) = Len(t)
    /\ \A i \in 1..Len(s) : UpperChar(s[i]) = UpperChar(t[i])

Answered(t) == req[t].pc = "done" /\ req[t].status = 200

\* C5: query runs the partner-discovery chain exactly when query_type equals
\* "partner" up to case, and the market-expansion chain for every other value.
C5_ChainByQueryType ==
    \A t \in Threads :
       Answered(t) =>
          req[t].template = IF EqualsIgnoringCase(req[t].query_type, Partner)
                            THEN "PARTNER_DISCOVERY" ELSE "MARKET_EXPANSION"

C5_Witness ==
    \E t \in Threads :
       /\ Answered(t)
       /\ req[t].query_type = <<"P", "A", "R", "T", "N", "E", "R">>
       /\ req[t].template = "PARTNER_DISCOVERY"

\* C6: a request that applies the filter F and then queries, with either query
\* type, gets only source documents whose metadata has every key of F with
\* F's value.
C6_SourcesSatisfyFilter ==
    \A t \in Threads :
       (Answered(t) /\ Truthy(req[t].metadata_filters)) =>
          \A d \in req[t].sources :
             \A k \in DOMAIN req[t].metadata_filters.map :
                /\ k \in DOMAIN d.metadata
                /\ d.metadata[k] = req[t].metadata_filters.map[k]

C6_Witness ==
    \E t \in Threads :
       /\ Answered(t)
       /\ req[t].metadata_filters.given
       /\ req[t].metadata_filters.map = [k \in {"country"} |-> "USA"]
       /\ req[t].query_type = Partner
       /\ req[t].sources # {}
       /\ \E e \in index : /\ "content" \in DOMAIN e.metadata
                           /\ ~Matches(e.metadata, req[t].metadata_filters.map)

RECURSIVE SumOver(_, _)
SumOver(f, keys) ==
    IF keys = {} THEN 0
    ELSE LET k == CHOOSE x \in keys : TRUE IN f[k] + SumOver(f, keys \ {k})

C8_NoOrphanVectors ==
    \A e \in index : \E i \in 1..Len(store) : str(store[i].id) = e.id

C8_Witness ==
    /\ index # {}
    /\ hist.rowErr > 0
    /\ Cardinality(index) = Len(store)

\* The record an index entry was written for.
RecordOf(e) == CHOOSE r \in Range(store) : str(r.id) = e.id

\* C11: the metadata of an index entry has record_id = record.id and
\* source = record.source, and beside these two exactly the keys among region,
\* country, year, type, category that the record's metadata holds with a
\* non-null value, with the record's values; no other key is copied.
C11_MetadataAllowList ==
    \A e \in index :
       LET r == RecordOf(e)
           allowed == {"region", "country", "year", "type", "category"}
           present == {k \in DOMAIN r.metadata : r.metadata[k] # None}
       IN /\ e.metadata["record_id"] = r.id
          /\ e.metadata["source"] = r.source
          /\ DOMAIN e.metadata \ {"record_id", "source"} = allowed \cap present
          /\ \A k \in allowed \cap present : e.metadata[k] = r.metadata[k]

C11_Witness ==
    \E e \in index :
       /\ DOMAIN e.metadata = {"record_id", "source", "country", "type"}
       /\ {"year", "url", "Value"} \subseteq DOMAIN RecordOf(e).metadata
       /\ RecordOf(e).metadata["year"] = None
       /\ RecordOf(e).metadata["url"] = "x"

\* C12: over any interleaving of concurrent requests RAGPipeline is
\* constructed at most once, and every request that has its pipeline is
\* served by that one instance.
C12_SingleInstance ==
    /\ Len(pipes) <= 1
    /\ \A t \in Threads : req[t].rag \in {0, 1}

\* Thread t takes the step that runs its query on pipeline p and answers 200.
Answers(t, p) ==
    /\ req[t].rag = p
    /\ req[t].pc = "query"
    /\ req'[t].pc = "done"
    /\ req'[t].status = 200

\* C13: once a pipeline's retriever carries a filter F, it keeps F until a
\* filter_by_metadata call of a request that carries a non-empty filter map
\* replaces it by that map; a request without metadata_filters or with an
\* empty map, of either query type, is answered from the retriever filtered
\* by F and gets only sources that satisfy F.
C13_FilterStaysActive ==
    [][\A p \in 1..Len(pipes) :
          LET F == pipes[p].retriever IN
          F.filtered =>
            /\ pipes'[p].retriever # F =>
                  \E t \in Threads :
                     /\ req[t].rag = p
                     /\ req[t].metadata_filters.given
                     /\ DOMAIN req[t].metadata_filters.map # {}
                     /\ pipes'[p].retriever.filtered
                     /\ pipes'[p].retriever.filter = req[t].metadata_filters.map
            /\ \A t \in Threads :
                  (Answers(t, p) /\ DOMAIN req[t].metadata_filters.map = {}) =>
                     /\ req'[t].used.filtered
                     /\ req'[t].used.filter = F.filter
                     /\ \A d \in req'[t].sources :
                           \A k \in DOMAIN F.filter :
                              k \in DOMAIN d.metadata /\ d.metadata[k] = F.filter[k]
      ]_vars

C13_Witness ==
    \E t \in Threads :
       /\ served >= 1
       /\ Answered(t)
       /\ req[t].metadata_filters.given
       /\ req[t].metadata_filters.map = <<>>
       /\ req[t].used.filtered
       /\ req[t].used.filter = [k \in {"country"} |-> "USA"]
       /\ req[t].query_type = Partner
       /\ req[t].sources # {}

\* The non-empty filter maps the concurrent requests supply.
SuppliedMaps == {mf.map : mf \in {f \in ConcFilters : DOMAIN f.map # {}}}

\* C14: with concurrent requests a request A that supplied a filter is
\* answered from a retriever filtered by a map that some request supplied, not
\* always its own: its sources satisfy the filter its retrieval ran with, and
\* there is an interleaving (the witness) where that is the filter of the
\* concurrent request B and A's sources do not satisfy A's filter.
C14_RetrievalUsesSomeSuppliedFilter ==
    \A a \in Threads :
       (Answered(a) /\ DOMAIN req[a].metadata_filters.map # {}) =>
          /\ req[a].used.filtered
          /\ req[a].used.filter \in SuppliedMaps
          /\ \A d \in req[a].sources :
                \A k \in DOMAIN req[a].used.filter :
                   k \in DOMAIN d.metadata /\ d.metadata[k] = req[a].used.filter[k]

C14_Witness ==
    \E a \in Threads, b \in Threads :
       /\ a # b
       /\ Answered(a)
       /\ req[a].metadata_filters.map = [k \in {"country"} |-> "USA"]
       /\ req[b].metadata_filters.map = [k \in {"country"} |-> "UK"]
       /\ req[b].rag = req[a].rag
       /\ req[a].used.filter = req[b].metadata_filters.map
       /\ \E d \in req[a].sources : d.metadata["country"] # "USA"

\* The response a handler makes of an exception of message e: status 500 and
\* a detail that ends with e.
ErrorPrefixes ==
    {"Failed to initialize RAG pipeline: ", "Query processing error: ",
     "Database error: ", "Error retrieving filter options: "}

Is500With(resp, e) ==
    /\ resp.status = 500
    /\ \E prefix \in ErrorPrefixes : resp.detail = prefix \o e

Settled(resp) ==
    IF resp.raised = "" THEN resp.status = 200 ELSE Is500With(resp, resp.raised)

\* C15: a POST /query, GET /stats or GET /filters request during which an
\* exception is raised is answered with status 500 and the exception's
\* message; a request during which none is raised is answered 200; no
\* response has another status.
C15_ExceptionsBecome500 ==
    /\ \A t \in Threads : req[t].pc = "done" => Settled(req[t])
    /\ statsPc = "done" => Settled(stats)
    /\ filtersPc = "done" => Settled(filters)

C15_Witness ==
    /\ \E t \in Threads : /\ req[t].pc = "done"
                          /\ req[t].raised = "generation failed"
                          /\ req[t].rag # 0
    /\ statsPc = "done"
    /\ stats.raised = "OperationalError"
    /\ filtersPc = "done"

\* The argument each source requires.
RequiredArg(source) ==
    CASE source \in {"who_csv", "purchased"} -> "path"
      [] source = "cdc_api" -> "endpoint"
      [] source = "pubmed_api" -> "query"
      [] source = "web_scrape" -> "url"

KnownSources == {"who_csv", "cdc_api", "pubmed_api", "purchased", "web_scrape"}

Exited == ingPc = "idle" /\ runs > 0

\* C16: an invocation whose source is unknown or whose source's required
\* argument is not given exits with a non-zero status and leaves the store as
\* it found it; every invocation that made a session has closed it when it
\* exits.
C16_CliExitsAndCloses ==
    Exited =>
       /\ (cli.source \notin KnownSources \/ cli.args[RequiredArg(cli.source)] = None) =>
             /\ cli.exit # 0
             /\ Len(store) = hist.base
             /\ pending = <<>>
       /\ cli.session \in {"none", "closed"}
       /\ cli.source \in KnownSources => cli.session = "closed"

C16_Witness ==
    /\ Exited
    /\ cli.source = "cdc_api"
    /\ cli.args.endpoint = None
    /\ cli.args.path = "who.csv"
    /\ cli.exit = 1
    /\ cli.session = "closed"

\* C17: while the index does not exist no pipeline exists and the global is
\* unset; a request that reaches the construction then is answered 500 and
\* leaves both as they were; a request that finds the global unset attempts
\* the construction, which succeeds and sets the global once the index
\* exists; a run of the embedding job makes the index exist.
C17_MissingIndex ==
    [][/\ ~indexExists => (pipes = <<>> /\ rag_pipeline = 0)
       /\ \A t \in Threads :
             req'[t] # req[t] =>
                /\ (req[t].pc = "depends" /\ rag_pipeline = 0) => req'[t].pc = "construct"
                /\ (req[t].pc = "construct" /\ ~indexExists) =>
                      /\ req'[t].pc = "done"
                      /\ req'[t].status = 500
                      /\ pipes' = <<>>
                      /\ rag_pipeline' = 0
                /\ (req[t].pc = "construct" /\ indexExists) =>
                      /\ Len(pipes') = Len(pipes) + 1
                      /\ rag_pipeline' = Len(pipes')
                      /\ req'[t].status = 0
       /\ (embPc = "idle" /\ embPc' = "batches") => indexExists'
      ]_vars

C17_Witness ==
    /\ served >= 1
    /\ embHist.runs = 1
    /\ req[1].pc = "return"
    /\ Len(pipes) = 1
    /\ rag_pipeline = 1

\* C18: a pipeline is built with the compressing retriever and answers from
\* it as long as no filter_by_metadata call was made on it; the call replaces
\* it by a retriever without compression, and from then on no query on the
\* instance is compressed: a query is compressed exactly when the retriever
\* it runs on carries no filter, and compression never comes back.
C18_CompressionLostAfterFilter ==
    [][\A p \in 1..Len(pipes') :
          /\ p > Len(pipes) => (pipes'[p].retriever.compressed
                                /\ ~pipes'[p].retriever.filtered)
          /\ p <= Len(pipes) =>
                /\ ~pipes[p].retriever.compressed => ~pipes'[p].retriever.compressed
                /\ pipes'[p].retriever.filtered => ~pipes'[p].retriever.compressed
                /\ \A t \in Threads :
                      Answers(t, p) =>
                         /\ req'[t].used.compressed = ~pipes[p].retriever.filtered
                         /\ req'[t].used.compressed = ~req'[t].used.filtered
      ]_vars

C18_Witness ==
    \E t \in Threads :
       /\ served >= 2
       /\ Answered(t)
       /\ ~req[t].metadata_filters.given
       /\ ~req[t].used.compressed
       /\ req[t].sources # {}

\* A filter_by_metadata call is in progress on pipeline p.
Filtering(p) ==
    \E t \in Threads :
       /\ req[t].rag = p
       /\ req[t].pc \in {"set_retriever", "create_default_qa", "set_default_qa",
                          "create_partner_qa", "set_partner_qa"}

\* C19: whenever no filter_by_metadata call is in progress on a pipeline,
\* its default_qa and its partner_qa are both built on the retriever that
\* self.retriever holds, also after concurrent calls have all returned.
C19_ChainsOnCurrentRetriever ==
    \A p \in 1..Len(pipes) :
       ~Filtering(p) =>
          /\ pipes[p].default_qa.retriever = pipes[p].retriever
          /\ pipes[p].partner_qa.retriever = pipes[p].retriever

\* C20: a run that ends without a file-level error reports an added_count
\* equal to the number of records it has committed, whatever rows raised and
\* whichever periodic commits failed.
C20_AddedCountIsPersisted ==
    (ingPc = "done" /\ ~fileError) => added_count = Len(PersistedByRun)

\* C21: at every point of the row loop and at its end each row read has been
\* counted once, as added or as skipped, also when a periodic commit raised:
\* added_count + skipped_count is the number of rows processed.
C21_EveryRowCountedOnce ==
    ingPc \in {"rows", "done"} => added_count + skipped_count = rowsDone

\* The ids of the committed records a run with the given --source is to embed.
MatchingIds(source) ==
    {store[i].id : i \in {j \in 1..Len(store) :
                             source = None \/ source = "" \/ store[j].source = source}}

\* C22: a run without --limit over an unchanged table ends having yielded
\* every record that matches --source exactly once, so that total_success +
\* total_errors is the number of matching records.
C22_EachRecordYieldedOnce ==
    (embPc = "done" /\ embArgs.limit = NoLimit) =>
       /\ Len(embHist.yielded) = Cardinality(MatchingIds(embArgs.source))
       /\ Range(embHist.yielded) = MatchingIds(embArgs.source)
       /\ total_success + total_errors = Cardinality(MatchingIds(embArgs.source))

====
